---- MODULE Spec2Model ----
(***************************************************************************)
(* Conway's Game of Life on a sparse infinite grid (src/main.rs).          *)
(*                                                                         *)
(* The state is the four resources of the application: the set of alive    *)
(* cells, the repeating simulation timer, the pause flag and the draw      *)
(* mode.  Every frame the Update schedule runs handle_mouse_input,         *)
(* handle_keyboard_input and simulate_game_of_life once each.  The systems *)
(* are registered in one tuple without .chain() or before()/after(), so    *)
(* the schedule is free to run them in any order; a frame is modelled as   *)
(* the three systems in any order followed by EndFrame.  The other systems *)
(* of the tuple (camera pan and zoom, cursor preview, rendering, UI text)  *)
(* do not write these resources; of them update_cursor_preview is modelled *)
(* too, with the sprite it spawns.                                         *)
(*                                                                         *)
(* Time is counted in hundredths of a second; world coordinates are        *)
(* sampled at whole units.  Cell coordinates are i32: an addition that     *)
(* leaves the i32 range panics where overflow checks are compiled in (a    *)
(* debug build) and wraps where they are not (a release build).            *)
(***************************************************************************)
EXTENDS Integers, FiniteSets, Sequences, TLC

\* ------------------------------------------------------------- constants
\* const CELL_SIZE: f32 = 10.0
CELL_SIZE == 10
\* const TICK_SPEED: f32 = 0.07, in hundredths of a second
TICK_SPEED == 7

\* ---------------------------------------------------------------- bounds
\* The timer is ticked while the total ticked time stays within this.
MaxRunningTime == 21
\* At most this many keys are just-pressed in one frame.
MaxKeys == 2
\* Initial patterns of SpecLife lie in (0..GridMax) x (0..GridMax) ...
GridMax == 2
\* ... and hold at most this many cells.
MaxCells == 5
\* Initial patterns of SpecOrder hold at most this many cells, in two rows of this
\* many columns; the iteration orders of a store are enumerated up to this size.
MaxOrdered == 3

VARIABLES
    alive_cells,               \* GameOfLife.alive_cells
    paused,                    \* SimulationPaused.paused
    draw_mode,                 \* the DrawMode resource
    elapsed,                   \* SimulationTimer.timer: elapsed time of the stopwatch
    times_finished_this_tick,  \* SimulationTimer.timer: set by the last tick()
    ran,                       \* the systems that already ran in the current frame
    generation,                \* history: generation advances performed so far
    running_time,              \* history: total frame time that passed while not paused
    start_cells,               \* history: the store the behaviour started from
    mouse_buttons,             \* history: the buttons handle_mouse_input saw this frame
    mouse_cursor,              \* history: the cursor position it saw this frame
    sim_paused,                \* history: the pause flag simulate_game_of_life saw this frame
    sim_delta,                 \* history: the frame delta it was given this frame
    panicked,                  \* a system has panicked: the process is gone
    preview,                   \* the CursorPreview sprite: <<x, y, size_x, size_y>>, or none
    preview_cursor             \* history: the cursor position update_cursor_preview saw this frame

vars == <<alive_cells, paused, draw_mode, elapsed, times_finished_this_tick, ran,
          generation, running_time, start_cells,
          mouse_buttons, mouse_cursor, sim_paused, sim_delta, panicked,
          preview, preview_cursor>>

\* ------------------------------------------------------------ data types
DrawModes == {"Single", "Block3x3", "Block5x5"}

Systems == {"handle_mouse_input", "handle_keyboard_input", "simulate_game_of_life"}

MouseButtons == {"Left", "Right"}

Keys == {"Space", "KeyC", "Digit1", "Digit2", "Digit3"}

\* window.cursor_position() is None, or viewport_to_world_2d fails
NoCursor == <<>>

\* No entity has the CursorPreview component.
NoPreview == <<>>

\* ----------------------------------------------------------- arithmetic
\* The coordinates are i32: HashSet<(i32, i32)>.
I32_MAX == 2147483647
I32_MIN == (0 - I32_MAX) - 1

\* i32 addition as a release build performs it (two's complement wrap).
AddI32(a, b) ==
    IF b > 0 /\ a > I32_MAX - b THEN I32_MIN + ((b - 1) - (I32_MAX - a))
    ELSE IF b < 0 /\ a < I32_MIN - b THEN I32_MAX + ((b + 1) + (a - I32_MIN))
    ELSE a + b

\* a + b does not fit an i32
OverflowsI32(a, b) ==
    (b > 0 /\ a > I32_MAX - b) \/ (b < 0 /\ a < I32_MIN - b)

\* What an overflowing i32 addition does: "attempt to add with overflow" where
\* overflow checks are compiled in, two's complement wrap where they are not.
OverflowOutcomes(overflows) == IF overflows THEN {"panic", "wrap"} ELSE {"fits"}

\* A world coordinate is an f32.  The whole units of magnitude below 2^31 stand for
\* themselves; FarPositive stands for the coordinates from 2^31 * CELL_SIZE up and
\* FarNegative for those below -2^31 * CELL_SIZE (the camera pans and zooms out
\* without limit).
FarPositive == I32_MAX
FarNegative == I32_MIN

\* (world / CELL_SIZE).floor() as i32: the cast of a float saturates
WorldToCellTowardZero(w) ==
    IF w = FarPositive THEN I32_MAX
    ELSE IF w = FarNegative THEN I32_MIN
    ELSE IF w >= 0 THEN w \div CELL_SIZE
    ELSE 0 - ((0 - w) \div CELL_SIZE)

WorldToCell(w) ==
    IF w = FarPositive THEN I32_MAX
    ELSE IF w = FarNegative THEN I32_MIN
    ELSE w \div CELL_SIZE

CursorCell(cursor) == <<WorldToCell(cursor[1]), WorldToCell(cursor[2])>>

\* (world / CELL_SIZE) as i32: the cast of a float drops the fraction (it rounds
\* toward zero) and saturates
WorldToCellByCast(w) ==
    IF w = FarPositive THEN I32_MAX
    ELSE IF w = FarNegative THEN I32_MIN
    ELSE IF w >= 0 THEN w \div CELL_SIZE
    ELSE 0 - ((0 - w) \div CELL_SIZE)

\* let world_x = x as f32 * CELL_SIZE, for a cell whose world coordinate is a whole
\* unit of magnitude below 2^31
CellToWorld(c) == c * CELL_SIZE

PreviewCell(cursor) == <<WorldToCellByCast(cursor[1]), WorldToCellByCast(cursor[2])>>

\* --------------------------------------------------------------- brush
\* for dx in -r..=r { for dy in -r..=r { ... (cell_x + dx, cell_y + dy) } }
BlockCells(cell, r) ==
    {<<AddI32(cell[1], dx), AddI32(cell[2], dy)>> : dx \in (0 - r)..r, dy \in (0 - r)..r}

\* Some cell_x + dx or cell_y + dy of the two loops overflows.
BlockOverflows(cell, r) ==
    \E d \in (0 - r)..r : OverflowsI32(cell[1], d) \/ OverflowsI32(cell[2], d)

\* The match on *draw_mode: Single adds nothing to the cell's coordinates.
BrushOverflows(cell, mode) ==
    CASE mode = "Single" -> FALSE
      [] mode = "Block3x3" -> BlockOverflows(cell, 1)
      [] mode = "Block5x5" -> BlockOverflows(cell, 2)

\* The cells the match on *draw_mode inserts or removes.
BrushOnlyAnchorColumn(cell, mode) ==
    CASE mode = "Single" -> {cell}
      [] mode = "Block3x3" -> {<<cell[1], AddI32(cell[2], dy)>> : dy \in -1..1}
      [] mode = "Block5x5" -> {<<cell[1], AddI32(cell[2], dy)>> : dy \in -2..2}

BrushCells(cell, mode) ==
    CASE mode = "Single" -> {cell}
      [] mode = "Block3x3" -> BlockCells(cell, 1)
      [] mode = "Block5x5" -> BlockCells(cell, 2)

\* ------------------------------------------------------ generation engine
\* for dx in -1..=1 { for dy in -1..=1 { if dx == 0 && dy == 0 { continue; } ... } }
NeighborOffsetsWithSelf == (-1..1) \X (-1..1)

NeighborOffsetsWiderRange == {d \in (-1..2) \X (-1..2) : ~(d[1] = 0 /\ d[2] = 0)}

NeighborOffsets == {d \in (-1..1) \X (-1..1) : ~(d[1] = 0 /\ d[2] = 0)}

\* let neighbor = (x + dx, y + dy), for every offset of the two inner loops
Neighbors(cell) ==
    {<<AddI32(cell[1], d[1]), AddI32(cell[2], d[2])>> : d \in NeighborOffsets}

\* Some x + dx or y + dy of the counting loops overflows.
NeighborsOverflow(cells) ==
    \E cell \in cells, d \in NeighborOffsets :
        OverflowsI32(cell[1], d[1]) \/ OverflowsI32(cell[2], d[2])

\* The cell (x, y) whose neighbour at offset d = (dx, dy) is n: (x + dx, y + dy) = n.
SourceOf(n, d) == <<AddI32(n[1], 0 - d[1]), AddI32(n[2], 0 - d[2])>>

\* for &(x, y) in &game.alive_cells { for dx .. { for dy .. {
\*     *neighbor_counts.entry(neighbor).or_insert(0) += 1 } } }
\* The table after the loops: it has an entry for every neighbour of an alive cell,
\* and the loops add 1 to entry n (a u8) once for every alive cell and offset d whose
\* neighbour is n.
CountNeighborsStartingAtOne(cells) ==
    [n \in UNION {Neighbors(cell) : cell \in cells} |->
        (Cardinality({d \in NeighborOffsets : SourceOf(n, d) \in cells}) + 1) % 256]

CountNeighbors(cells) ==
    [n \in UNION {Neighbors(cell) : cell \in cells} |->
        Cardinality({d \in NeighborOffsets : SourceOf(n, d) \in cells}) % 256]

\* if count == 3 || (count == 2 && game.alive_cells.contains(&cell))
SurvivesOrBornIgnoringState(count, wasAlive) == count = 3 \/ count = 2

SurvivesOrBorn(count, wasAlive) == count = 3 \/ (count = 2 /\ wasAlive)

\* the body of `if timer.timer.just_finished()`: the next generation
NextGeneration(cells) ==
    LET neighbor_counts == CountNeighbors(cells)
    IN  {cell \in DOMAIN neighbor_counts :
            SurvivesOrBorn(neighbor_counts[cell], cell \in cells)}

\* ---- the same computation loop by loop, in a given iteration order
\* The orders in which the iterator of a HashSet or HashMap with the elements S may
\* yield them: the order is unspecified (and differs from run to run).
Orders(S) ==
    {order \in [1..Cardinality(S) -> S] :
        \A i, j \in 1..Cardinality(S) : order[i] = order[j] => i = j}

\* for dx in -1..=1 { for dy in -1..=1 { if dx == 0 && dy == 0 { continue; } .. } }
OffsetsInOrder ==
    <<<<-1, -1>>, <<-1, 0>>, <<-1, 1>>, <<0, -1>>, <<0, 1>>, <<1, -1>>, <<1, 0>>, <<1, 1>>>>

\* *neighbor_counts.entry(neighbor).or_insert(0) += 1, the map held as the sequence
\* of its entries <<key, count>>
Increment(entries, neighbor) ==
    IF \E i \in DOMAIN entries : entries[i][1] = neighbor
    THEN [i \in DOMAIN entries |->
            IF entries[i][1] = neighbor
            THEN <<neighbor, (entries[i][2] + 1) % 256>>
            ELSE entries[i]]
    ELSE Append(entries, <<neighbor, 1>>)

\* The counting loops from their k-th pass on: pass k handles the cell
\* order[(k - 1) \div 8 + 1] and the offset OffsetsInOrder[(k - 1) % 8 + 1].
RECURSIVE CountLoopSkippingFirstCell(_, _, _)
CountLoopSkippingFirstCell(order, k, entries) ==
    IF k > 8 * Len(order) THEN entries
    ELSE LET cell == order[(k - 1) \div 8 + 1]
             d == OffsetsInOrder[((k - 1) % 8) + 1]
             neighbor == <<AddI32(cell[1], d[1]), AddI32(cell[2], d[2])>>
         IN  CountLoopSkippingFirstCell(order, k + 1,
                 IF k <= 8 THEN entries ELSE Increment(entries, neighbor))

RECURSIVE CountLoop(_, _, _)
CountLoop(order, k, entries) ==
    IF k > 8 * Len(order) THEN entries
    ELSE LET cell == order[(k - 1) \div 8 + 1]
             d == OffsetsInOrder[((k - 1) % 8) + 1]
             neighbor == <<AddI32(cell[1], d[1]), AddI32(cell[2], d[2])>>
         IN  CountLoop(order, k + 1, Increment(entries, neighbor))

\* for (cell, count) in neighbor_counts { if .. { new_alive_cells.insert(cell); } }
\* from the k-th entry on
RECURSIVE RuleLoop(_, _, _, _)
RuleLoop(entries, k, new_alive_cells, cells) ==
    IF k > Len(entries) THEN new_alive_cells
    ELSE RuleLoop(entries, k + 1,
            IF SurvivesOrBorn(entries[k][2], entries[k][1] \in cells)
            THEN new_alive_cells \cup {entries[k][1]}
            ELSE new_alive_cells,
            cells)

Reversed(seq) == [i \in 1..Len(seq) |-> seq[Len(seq) + 1 - i]]

\* The next generation when the store's iterator yields the cells in the given
\* order and the map's iterator yields the entries in the order of their creation,
\* or in the reverse of it.
NextGenerationInOrder(cells, order, backwards) ==
    LET neighbor_counts == CountLoop(order, 1, <<>>)
    IN  RuleLoop(IF backwards THEN Reversed(neighbor_counts) ELSE neighbor_counts,
                 1, {}, cells)

RECURSIVE Generations(_, _)
Generations(cells, n) ==
    IF n = 0 THEN cells ELSE Generations(NextGeneration(cells), n - 1)

\* ----------------------------------------------------------------- timer
\* Timer::tick of a repeating timer: the stopwatch after the tick
ElapsedAfterTick(e, delta) ==
    IF e + delta >= TICK_SPEED THEN (e + delta) % TICK_SPEED ELSE e + delta

\* Timer::tick of a repeating timer: times_finished_this_tick
TimesFinished(e, delta) ==
    IF e + delta >= TICK_SPEED THEN (e + delta) \div TICK_SPEED ELSE 0

\* How often the block under `if timer.timer.just_finished()` runs after a tick
\* that finished the timer n times.
AdvancesPerInterval(n) == n

AdvancesFired(n) == IF n > 0 THEN 1 ELSE 0

\* ------------------------------------------------------------ initial state
\* The Default impls of the four resources; no system has run yet.
InitRunning ==
    /\ alive_cells = {}
    /\ paused = FALSE
    /\ draw_mode = "Single"
    /\ elapsed = 0
    /\ times_finished_this_tick = 0
    /\ ran = {}
    /\ generation = 0
    /\ running_time = 0
    /\ start_cells = {}
    /\ mouse_buttons = {}
    /\ mouse_cursor = NoCursor
    /\ sim_paused = TRUE
    /\ sim_delta = 0
    /\ panicked = FALSE
    /\ preview = NoPreview
    /\ preview_cursor = NoCursor

Init ==
    /\ alive_cells = {}
    /\ paused = TRUE
    /\ draw_mode = "Single"
    /\ elapsed = 0
    /\ times_finished_this_tick = 0
    /\ ran = {}
    /\ generation = 0
    /\ running_time = 0
    /\ start_cells = {}
    /\ mouse_buttons = {}
    /\ mouse_cursor = NoCursor
    /\ sim_paused = TRUE
    /\ sim_delta = 0
    /\ panicked = FALSE
    /\ preview = NoPreview
    /\ preview_cursor = NoCursor

timer_vars == <<elapsed, times_finished_this_tick>>
history_vars == <<generation, running_time, start_cells>>
mouse_vars == <<mouse_buttons, mouse_cursor>>
sim_vars == <<sim_paused, sim_delta>>
preview_vars == <<preview, preview_cursor>>

\* ------------------------------------------------------------------ systems
\* if mouse_button.pressed(Left) { insert ... } else if mouse_button.pressed(Right)
\* { remove ... }, for the cell under the cursor
EraseOnlyAnchor(cells, buttons, cell, mode) ==
    IF "Left" \in buttons THEN cells \cup BrushCells(cell, mode)
    ELSE IF "Right" \in buttons THEN cells \ {cell}
    ELSE cells

PaintToggles(cells, buttons, cell, mode) ==
    IF "Left" \in buttons
    THEN (cells \ BrushCells(cell, mode)) \cup (BrushCells(cell, mode) \ cells)
    ELSE IF "Right" \in buttons THEN cells \ BrushCells(cell, mode)
    ELSE cells

EraseAfterPaint(cells, buttons, cell, mode) ==
    LET painted == IF "Left" \in buttons THEN cells \cup BrushCells(cell, mode) ELSE cells
    IN  IF "Right" \in buttons THEN painted \ BrushCells(cell, mode) ELSE painted

AfterMouse(cells, buttons, cell, mode) ==
    IF "Left" \in buttons THEN cells \cup BrushCells(cell, mode)
    ELSE IF "Right" \in buttons THEN cells \ BrushCells(cell, mode)
    ELSE cells

\* One of the two matches runs and an addition of its loops overflows.
MouseOverflows(buttons, cursor, mode) ==
    /\ cursor # NoCursor
    /\ buttons # {}
    /\ BrushOverflows(CursorCell(cursor), mode)

\* handle_mouse_input with the given pressed buttons and cursor position
HandleMouseInput(buttons, cursor) ==
    /\ ~panicked
    /\ "handle_mouse_input" \notin ran
    /\ "update_cursor_preview" \in ran => cursor = preview_cursor
    /\ ran' = ran \cup {"handle_mouse_input"}
    /\ \E outcome \in OverflowOutcomes(MouseOverflows(buttons, cursor, draw_mode)) :
          /\ panicked' = (outcome = "panic")
          /\ alive_cells' =
               IF cursor = NoCursor \/ outcome = "panic" THEN alive_cells
               ELSE AfterMouse(alive_cells, buttons, CursorCell(cursor), draw_mode)
    /\ mouse_buttons' = buttons
    /\ mouse_cursor' = cursor
    /\ UNCHANGED <<paused, draw_mode, timer_vars, history_vars, sim_vars, preview_vars>>

\* if keyboard.just_pressed(KeyCode::Space) { paused.paused = !paused.paused; }
PausedAfterKeys(p, keys) == IF "Space" \in keys THEN ~p ELSE p

\* if keyboard.just_pressed(KeyCode::KeyC) { game.alive_cells.clear(); }
CellsAfterKeys(cells, keys) == IF "KeyC" \in keys THEN {} ELSE cells

\* the three `if keyboard.just_pressed(KeyCode::DigitN)` in turn
ModeAfterKeys(mode, keys) ==
    LET m1 == IF "Digit1" \in keys THEN "Single" ELSE mode
        m2 == IF "Digit2" \in keys THEN "Block3x3" ELSE m1
    IN  IF "Digit3" \in keys THEN "Block5x5" ELSE m2

\* handle_keyboard_input with the given set of just-pressed keys
HandleKeyboardInput(keys) ==
    /\ ~panicked
    /\ "handle_keyboard_input" \notin ran
    /\ ran' = ran \cup {"handle_keyboard_input"}
    /\ paused' = PausedAfterKeys(paused, keys)
    /\ alive_cells' = CellsAfterKeys(alive_cells, keys)
    /\ draw_mode' = ModeAfterKeys(draw_mode, keys)
    /\ UNCHANGED <<timer_vars, history_vars, mouse_vars, sim_vars, panicked, preview_vars>>

\* if paused.paused { return; }
NeverReturnsEarly(p) == FALSE

ReturnsEarly(p) == p

\* simulate_game_of_life with the frame's time.delta()
SimulateGameOfLife(delta) ==
    /\ ~panicked
    /\ "simulate_game_of_life" \notin ran
    /\ ran' = ran \cup {"simulate_game_of_life"}
    /\ running_time + (IF paused THEN 0 ELSE delta) <= MaxRunningTime
    /\ IF ReturnsEarly(paused)
       THEN UNCHANGED <<alive_cells, timer_vars, generation, panicked>>
       ELSE LET finished == TimesFinished(elapsed, delta)
                fired == AdvancesFired(finished)
            IN  \E outcome \in OverflowOutcomes(fired > 0 /\ NeighborsOverflow(alive_cells)) :
                   /\ panicked' = (outcome = "panic")
                   /\ elapsed' = ElapsedAfterTick(elapsed, delta)
                   /\ times_finished_this_tick' = finished
                   /\ alive_cells' =
                        IF outcome = "panic" THEN alive_cells
                        ELSE Generations(alive_cells, fired)
                   /\ generation' =
                        IF outcome = "panic" THEN generation ELSE generation + fired
    /\ running_time' = running_time + (IF paused THEN 0 ELSE delta)
    /\ sim_paused' = paused
    /\ sim_delta' = delta
    /\ UNCHANGED <<paused, draw_mode, start_cells, mouse_vars, preview_vars>>

\* let (size_x, size_y) = match *draw_mode { .. }
PreviewSize(mode) ==
    CASE mode = "Single" -> 1
      [] mode = "Block3x3" -> 3
      [] mode = "Block5x5" -> 5

\* let offset = match *draw_mode { .. }
PreviewOffset(mode) ==
    CASE mode = "Single" -> 0
      [] mode = "Block3x3" -> -1
      [] mode = "Block5x5" -> -2

\* (cell + offset) as f32 * CELL_SIZE + (size as f32 * CELL_SIZE) / 2.0
PreviewWorld(cell, mode) ==
    AddI32(cell, PreviewOffset(mode)) * CELL_SIZE + (PreviewSize(mode) * CELL_SIZE) \div 2

\* The Sprite with its Transform and its custom_size: the centre and the size.
PreviewSprite(cell, mode) ==
    <<PreviewWorld(cell[1], mode), PreviewWorld(cell[2], mode),
      PreviewSize(mode) * CELL_SIZE, PreviewSize(mode) * CELL_SIZE>>

\* update_cursor_preview with the cursor position of the frame: it despawns the
\* preview and, with a cursor, spawns the new one.
UpdateCursorPreview(cursor) ==
    /\ ~panicked
    /\ "update_cursor_preview" \notin ran
    /\ "handle_mouse_input" \in ran => cursor = mouse_cursor
    /\ ran' = ran \cup {"update_cursor_preview"}
    /\ preview_cursor' = cursor
    /\ \E outcome \in OverflowOutcomes(
              /\ cursor # NoCursor
              /\ \/ OverflowsI32(PreviewCell(cursor)[1], PreviewOffset(draw_mode))
                 \/ OverflowsI32(PreviewCell(cursor)[2], PreviewOffset(draw_mode))) :
          /\ panicked' = (outcome = "panic")
          /\ preview' =
               IF cursor = NoCursor \/ outcome = "panic" THEN NoPreview
               ELSE PreviewSprite(PreviewCell(cursor), draw_mode)
    /\ UNCHANGED <<alive_cells, paused, draw_mode, timer_vars, history_vars,
                   mouse_vars, sim_vars>>

\* The Update schedule has run every system: the next frame begins.
EndFrame ==
    /\ ~panicked
    /\ Systems \subseteq ran
    /\ ran' = {}
    /\ preview_cursor' = NoCursor
    /\ mouse_buttons' = {}
    /\ mouse_cursor' = NoCursor
    /\ sim_paused' = TRUE
    /\ sim_delta' = 0
    /\ UNCHANGED <<alive_cells, paused, draw_mode, timer_vars, history_vars, panicked,
                   preview>>

\* ------------------------------------------------------------ specifications
\* Frame deltas: none, one interval, and two intervals and a rest.
Deltas == {0, TICK_SPEED, 2 * TICK_SPEED + 1}

\* The cursor is off the window or over the cell (-1, -1).
Cursors == {NoCursor, <<-5, -5>>}

KeySets == {keys \in SUBSET Keys : Cardinality(keys) <= MaxKeys}

\* Frames with every input.
Next ==
    \/ \E buttons \in SUBSET MouseButtons, cursor \in Cursors :
          HandleMouseInput(buttons, cursor)
    \/ \E keys \in KeySets : HandleKeyboardInput(keys)
    \/ \E delta \in Deltas : SimulateGameOfLife(delta)
    \/ EndFrame

Spec == Init /\ [][Next]_vars

\* Frames of any length, short ones too, with the pause and clear keys and the
\* mouse in Single mode.
FineDeltas == {0, 1, 3, TICK_SPEED, 2 * TICK_SPEED + 1}

TimerKeySets == {{}, {"Space"}, {"KeyC"}}

NextTimer ==
    \/ \E buttons \in SUBSET MouseButtons, cursor \in Cursors :
          HandleMouseInput(buttons, cursor)
    \/ \E keys \in TimerKeySets : HandleKeyboardInput(keys)
    \/ \E delta \in FineDeltas : SimulateGameOfLife(delta)
    \/ EndFrame

SpecTimer == Init /\ [][NextTimer]_vars

\* A running simulation that was given a pattern of at most MaxCells cells in the
\* grid (0..GridMax) x (0..GridMax) and receives no input afterwards.
Grid == (0..GridMax) \X (0..GridMax)

Patterns == {cells \in SUBSET Grid : Cardinality(cells) <= MaxCells}

InitLife ==
    /\ alive_cells \in Patterns
    /\ start_cells = alive_cells
    /\ paused = FALSE
    /\ draw_mode = "Single"
    /\ elapsed = 0
    /\ times_finished_this_tick = 0
    /\ ran = {}
    /\ generation = 0
    /\ running_time = 0
    /\ mouse_buttons = {}
    /\ mouse_cursor = NoCursor
    /\ sim_paused = TRUE
    /\ sim_delta = 0
    /\ panicked = FALSE
    /\ preview = NoPreview
    /\ preview_cursor = NoCursor

IdleDeltas == {0, TICK_SPEED}

NextLife ==
    \/ HandleMouseInput({}, NoCursor)
    \/ HandleKeyboardInput({})
    \/ \E delta \in IdleDeltas : SimulateGameOfLife(delta)
    \/ EndFrame

SpecLife == InitLife /\ [][NextLife]_vars

\* A running simulation that was given a pattern of at most MaxOrdered cells in the
\* grid (0..MaxOrdered - 1) x (0..1) and receives no input afterwards.
OrderGrid == (0..(MaxOrdered - 1)) \X (0..1)

OrderPatterns == {cells \in SUBSET OrderGrid : Cardinality(cells) <= MaxOrdered}

InitOrder ==
    /\ alive_cells \in OrderPatterns
    /\ start_cells = alive_cells
    /\ paused = FALSE
    /\ draw_mode = "Single"
    /\ elapsed = 0
    /\ times_finished_this_tick = 0
    /\ ran = {}
    /\ generation = 0
    /\ running_time = 0
    /\ mouse_buttons = {}
    /\ mouse_cursor = NoCursor
    /\ sim_paused = TRUE
    /\ sim_delta = 0
    /\ panicked = FALSE
    /\ preview = NoPreview
    /\ preview_cursor = NoCursor

SpecOrder == InitOrder /\ [][NextLife]_vars

\* The camera has been panned far out: the cursor is off the window or over a
\* world position beyond the last cell column and below the first cell row.
EdgeCursors == {NoCursor, <<FarPositive, FarNegative>>}

EdgeKeySets == {{}, {"Space"}, {"Digit1"}, {"Digit2"}, {"Digit3"}}

NextEdge ==
    \/ \E buttons \in SUBSET MouseButtons, cursor \in EdgeCursors :
          HandleMouseInput(buttons, cursor)
    \/ \E keys \in EdgeKeySets : HandleKeyboardInput(keys)
    \/ \E delta \in IdleDeltas : SimulateGameOfLife(delta)
    \/ EndFrame

SpecEdge == Init /\ [][NextEdge]_vars

\* The cursor over cells on both sides of both axes, inside a cell and on a cell's
\* border, with the preview drawn; the simulation stays paused.
PreviewCursors == {NoCursor, <<-5, -5>>, <<-10, 0>>, <<15, -20>>, <<-1, 29>>}

PreviewKeySets == {{}, {"Digit1"}, {"Digit2"}, {"Digit3"}}

NextPreview ==
    \/ \E buttons \in {{}, {"Left"}}, cursor \in PreviewCursors :
          HandleMouseInput(buttons, cursor)
    \/ \E keys \in PreviewKeySets : HandleKeyboardInput(keys)
    \/ \E cursor \in PreviewCursors : UpdateCursorPreview(cursor)
    \/ SimulateGameOfLife(TICK_SPEED)
    \/ EndFrame

SpecPreview == Init /\ [][NextPreview]_vars

\* ================================================================== claims
\* A system of the frame takes its step.
Runs(system) == system \notin ran /\ system \in ran'

Abs(i) == IF i < 0 THEN 0 - i ELSE i

\* Conway's rule, read off the grid: the alive cells among the 8 cells around c.
AliveAround(c, cells) ==
    Cardinality({m \in cells :
        m # c /\ Abs(m[1] - c[1]) <= 1 /\ Abs(m[2] - c[2]) <= 1})

AliveNext(c, cells) ==
    AliveAround(c, cells) = 3 \/ (AliveAround(c, cells) = 2 /\ c \in cells)

Xs(cells) == {c[1] : c \in cells}
Ys(cells) == {c[2] : c \in cells}
Min(S) == CHOOSE i \in S : \A j \in S : i <= j
Max(S) == CHOOSE i \in S : \A j \in S : i >= j

\* The bounding box of the cells, widened by two on every side.
Surroundings(cells) ==
    IF cells = {} THEN {}
    ELSE ((Min(Xs(cells)) - 2)..(Max(Xs(cells)) + 2))
            \X ((Min(Ys(cells)) - 2)..(Max(Ys(cells)) + 2))

\* C1: a generation advance replaces the store by exactly the cells that have 3
\* alive neighbours, or 2 and are alive in the store before the advance; every
\* other coordinate is dead afterwards.
C1_AdvanceIsConwayRule ==
    [][generation' = generation + 1 =>
         /\ alive_cells' \subseteq Surroundings(alive_cells)
         /\ \A c \in Surroundings(alive_cells) :
               c \in alive_cells' <=> AliveNext(c, alive_cells)]_vars

\* An advance with a birth, a survival and a death has happened.
C1_Witness ==
    /\ generation = 1
    /\ Cardinality(start_cells) = 4
    /\ \E c \in alive_cells : c \notin start_cells
    /\ \E c \in alive_cells : c \in start_cells /\ AliveAround(c, start_cells) = 2
    /\ \E c \in start_cells : c \notin alive_cells
    /\ \E c \in Surroundings(start_cells) :
          c \notin start_cells /\ c \notin alive_cells /\ AliveAround(c, start_cells) = 2

HorizontalBlinker == {<<0, 0>>, <<1, 0>>, <<2, 0>>}
VerticalBlinker == {<<1, -1>>, <<1, 0>>, <<1, 1>>}

\* C2: from the store {(0,0),(1,0),(2,0)} one advance yields {(1,-1),(1,0),(1,1)}
\* and a second advance yields {(0,0),(1,0),(2,0)} again.
C2_BlinkerPeriodTwo ==
    start_cells = HorizontalBlinker =>
        /\ generation = 1 => alive_cells = VerticalBlinker
        /\ generation = 2 => alive_cells = HorizontalBlinker

\* The blinker has been advanced twice.
C2_Witness == start_cells = HorizontalBlinker /\ generation = 2

IsBlock2x2(cells) ==
    \E a \in cells :
        cells = {a, <<a[1] + 1, a[2]>>, <<a[1], a[2] + 1>>, <<a[1] + 1, a[2] + 1>>}

\* C3: a store that is a 2x2 block, at any anchor, is still exactly that block
\* after any number of advances without input.
C3_BlockIsStill == IsBlock2x2(start_cells) => alive_cells = start_cells

\* The block anchored at (1,1) has been advanced at least twice.
C3_Witness ==
    /\ start_cells = {<<1, 1>>, <<2, 1>>, <<1, 2>>, <<2, 2>>}
    /\ generation >= 2

\* C4: while running, the number of generation advances equals the number of full
\* tick intervals of running time, also when one delta spans several intervals.
C4_OneAdvancePerInterval == generation = running_time \div TICK_SPEED

\* C5: advance_time with the pause flag set leaves the store (and the timer and
\* the generation count) as they are, whatever the delta.
C5_PausedKeepsStore ==
    [][(Runs("simulate_game_of_life") /\ paused) =>
          /\ alive_cells' = alive_cells
          /\ generation' = generation
          /\ elapsed' = elapsed]_vars

\* simulate_game_of_life ran paused on a non-empty store with a delta that, added
\* to the accumulator, spans a tick interval.
C5_Witness ==
    /\ "simulate_game_of_life" \in ran
    /\ sim_paused /\ paused
    /\ elapsed > 0
    /\ sim_delta >= TICK_SPEED
    /\ alive_cells # {}

\* The advance block ran in the current frame.
FiredThisFrame ==
    /\ "simulate_game_of_life" \in ran
    /\ ~sim_paused
    /\ times_finished_this_tick > 0

\* C6: in every frame the input systems have run before the scheduler decides, so
\* an advance is computed from the store holding the frame's edits and under the
\* pause flag the frame's input has left.
C6_InputBeforeAdvance ==
    /\ FiredThisFrame => {"handle_mouse_input", "handle_keyboard_input"} \subseteq ran
    /\ ran = Systems => sim_paused = paused

\* The successor of a store under Conway's rule, read off the grid.
ConwayNext(cells) == {c \in Surroundings(cells) : AliveNext(c, cells)}

\* C7: a frame performs at most one generation advance, whatever its delta: only
\* simulate_game_of_life advances, and it leaves the store as it is or replaces it
\* by its one-step successor.
C7_AtMostOneAdvancePerFrame ==
    /\ [][generation' # generation => Runs("simulate_game_of_life")]_vars
    /\ [][Runs("simulate_game_of_life") =>
             /\ generation' \in {generation, generation + 1}
             /\ alive_cells' \in {alive_cells, ConwayNext(alive_cells)}]_vars

\* A frame whose delta spans two intervals advanced a store once, and a second
\* advance would have changed it again.
C7_Witness ==
    /\ FiredThisFrame
    /\ sim_delta >= 2 * TICK_SPEED
    /\ times_finished_this_tick = 2
    /\ alive_cells # {}
    /\ ConwayNext(alive_cells) # alive_cells

\* The reach of a draw mode on each axis.
Reach(mode) ==
    CASE mode = "Single" -> 0
      [] mode = "Block3x3" -> 1
      [] mode = "Block5x5" -> 2

\* The cells within distance r of the cell a on both axes.
Square(a, r) ==
    {c \in ((a[1] - 3)..(a[1] + 3)) \X ((a[2] - 3)..(a[2] + 3)) :
        Abs(c[1] - a[1]) <= r /\ Abs(c[2] - a[2]) <= r}

BrushAnchors == {<<-1, -1>>, <<0, 0>>, <<3, -2>>, <<-4, 5>>}

\* C8: for every anchor the brush touches the anchor alone in Single mode, the 9
\* cells at offsets -1..1 in Block3x3 mode and the 25 cells at offsets -2..2 in
\* Block5x5 mode.
C8_BrushIsCentredSquare ==
    \A a \in BrushAnchors :
        /\ BrushCells(a, draw_mode) = Square(a, Reach(draw_mode))
        /\ Cardinality(BrushCells(a, draw_mode)) =
              (2 * Reach(draw_mode) + 1) * (2 * Reach(draw_mode) + 1)
        /\ draw_mode = "Single" => BrushCells(a, draw_mode) = {a}

\* The cell whose square of side CELL_SIZE holds the cursor.
AnchorOf(cursor) ==
    <<CHOOSE x \in -10..10 : x * CELL_SIZE <= cursor[1] /\ cursor[1] < (x + 1) * CELL_SIZE,
      CHOOSE y \in -10..10 : y * CELL_SIZE <= cursor[2] /\ cursor[2] < (y + 1) * CELL_SIZE>>

\* A 5x5 paint on the empty store has left exactly the 25 cells around the anchor.
C8_Witness ==
    /\ "handle_mouse_input" \in ran
    /\ mouse_buttons = {"Left"}
    /\ mouse_cursor # NoCursor
    /\ draw_mode = "Block5x5"
    /\ generation = 0
    /\ Cardinality(alive_cells) = 25

\* C9: paint adds the affected set B of the anchor and draw mode to the store,
\* erase takes the same B out of it, and neither changes the draw mode, the pause
\* flag or the timer.
C9_PaintEraseFrame ==
    [][Runs("handle_mouse_input") =>
          LET B == IF mouse_cursor' = NoCursor THEN {}
                   ELSE Square(AnchorOf(mouse_cursor'), Reach(draw_mode))
          IN  /\ mouse_buttons' = {"Left"} => alive_cells' = alive_cells \cup B
              /\ mouse_buttons' = {"Right"} => alive_cells' = alive_cells \ B
              /\ mouse_buttons' = {} => alive_cells' = alive_cells
              /\ draw_mode' = draw_mode
              /\ paused' = paused
              /\ elapsed' = elapsed
              /\ times_finished_this_tick' = times_finished_this_tick]_vars

\* A 3x3 erase has cut the middle out of a painted 5x5 block.
C9_Witness ==
    /\ "handle_mouse_input" \in ran
    /\ mouse_buttons = {"Right"}
    /\ mouse_cursor # NoCursor
    /\ draw_mode = "Block3x3"
    /\ generation = 0
    /\ Cardinality(alive_cells) = 16

Within(u, v, r) ==
    /\ (u > I32_MAX - r \/ v <= u + r)
    /\ (u < I32_MIN + r \/ v >= u - r)

CellWithin(a, c, r) == Within(a[1], c[1], r) /\ Within(a[2], c[2], r)

\* C11: paint, erase and advance are total over every i32 cell coordinate: no
\* system aborts, a paint or erase touches only cells within the brush's reach of
\* the anchor, and an advance leaves only cells adjacent to a cell alive before,
\* never a cell on the opposite side of the grid.
C11_CoordinatesNeverOverflow ==
    /\ [](~panicked)
    /\ [][(Runs("handle_mouse_input") /\ mouse_cursor' # NoCursor) =>
             \A c \in (alive_cells' \ alive_cells) \cup (alive_cells \ alive_cells') :
                 CellWithin(CursorCell(mouse_cursor'), c, Reach(draw_mode))]_vars
    /\ [][generation' # generation =>
             \A c \in alive_cells' : \E m \in alive_cells : CellWithin(m, c, 1)]_vars

\* The cells whose squares of side CELL_SIZE the sprite covers.
PreviewedCells(sprite) ==
    {c \in (-10..10) \X (-10..10) :
        /\ 2 * c[1] * CELL_SIZE >= 2 * sprite[1] - sprite[3]
        /\ 2 * (c[1] + 1) * CELL_SIZE <= 2 * sprite[1] + sprite[3]
        /\ 2 * c[2] * CELL_SIZE >= 2 * sprite[2] - sprite[4]
        /\ 2 * (c[2] + 1) * CELL_SIZE <= 2 * sprite[2] + sprite[4]}

\* The reach of the brush whose preview has the given size.
ReachOfSize(size) == (size \div CELL_SIZE - 1) \div 2

\* C12: for every cursor position and draw mode the preview is drawn around the
\* anchor cell that paint and erase use at that position, and it covers exactly
\* the cells the brush affects there.
C12_PreviewAnchorIsPaintAnchor ==
    ("update_cursor_preview" \in ran /\ preview_cursor # NoCursor) =>
        /\ PreviewCell(preview_cursor) = CursorCell(preview_cursor)
        /\ preview # NoPreview
        /\ PreviewedCells(preview) =
              Square(AnchorOf(preview_cursor), ReachOfSize(preview[3]))

\* The cell c is the floor of p / CELL_SIZE: its square of side CELL_SIZE holds the
\* world coordinate p, an exact multiple k * CELL_SIZE lies in cell k, and the
\* cell's origin is within one cell width of p.  The square of no i32 cell holds a
\* coordinate from 2^31 * CELL_SIZE up or below -2^31 * CELL_SIZE.
HoldsCoordinate(c, p) ==
    IF p = FarPositive \/ p = FarNegative THEN FALSE
    ELSE /\ c * CELL_SIZE <= p
         /\ p < (c + 1) * CELL_SIZE
         /\ p % CELL_SIZE = 0 => c * CELL_SIZE = p
         /\ Abs(CellToWorld(c) - p) < CELL_SIZE

\* C13: for every world position the cell that paint and erase use is the floor of
\* the position over CELL_SIZE on each axis by itself, also for negative positions
\* and exact multiples, so the cell's origin is within one cell width of the
\* position.
C13_WorldToCellIsFloor ==
    ("handle_mouse_input" \in ran /\ mouse_cursor # NoCursor) =>
        \A i \in 1..2 : HoldsCoordinate(CursorCell(mouse_cursor)[i], mouse_cursor[i])

\* A paint at a position that is negative and inside a cell on one axis and
\* positive on the other has made the cell under the cursor alive.
C13_Witness ==
    /\ "handle_mouse_input" \in ran
    /\ mouse_buttons = {"Left"}
    /\ mouse_cursor # NoCursor
    /\ mouse_cursor[1] < 0 /\ mouse_cursor[1] % CELL_SIZE # 0
    /\ mouse_cursor[2] > 0
    /\ AnchorOf(mouse_cursor) \in alive_cells

\* C14: the next store is a function of the set of alive cells alone: whatever the
\* order in which the alive cells are visited, and whether the entries of the
\* neighbour-count table are visited forwards or backwards, the loops leave the
\* same next store.
C14_AdvanceIgnoresIterationOrder ==
    [][(generation' = generation + 1 /\ Cardinality(alive_cells) <= MaxOrdered) =>
          \A order \in Orders(alive_cells), backwards \in BOOLEAN :
              NextGenerationInOrder(alive_cells, order, backwards) = alive_cells']_vars

\* A store of three cells, which its iterator may yield in six orders, has been
\* advanced to a different, non-empty store.
C14_Witness ==
    /\ generation = 1
    /\ Cardinality(start_cells) = 3
    /\ Cardinality(Orders(start_cells)) = 6
    /\ alive_cells # {}
    /\ alive_cells # start_cells

\* C15: the application starts with an empty store, paused, in Single mode and
\* with the tick accumulator at zero, and in every reachable state exactly one of
\* the three draw modes is the active one.
C15_InitialStateAndOneDrawMode ==
    /\ (alive_cells = {} /\ paused = TRUE /\ draw_mode = "Single" /\ elapsed = 0)
    /\ [](Cardinality({mode \in DrawModes : mode = draw_mode}) = 1)

\* The draw mode has been switched away from Single and the simulation started.
C15_Witness ==
    /\ draw_mode = "Block5x5"
    /\ ~paused
    /\ "handle_keyboard_input" \in ran
    /\ generation = 1

\* C16: a paint whose cells are all alive and an erase whose cells are all dead
\* leave the store and its count as they are, and applying the same paint or the
\* same erase a second time changes nothing the first has not changed.
C16_PaintAndEraseIdempotent ==
    /\ [][(Runs("handle_mouse_input") /\ mouse_cursor' # NoCursor) =>
             LET B == Square(AnchorOf(mouse_cursor'), Reach(draw_mode))
             IN  /\ (mouse_buttons' = {"Left"} /\ B \subseteq alive_cells) =>
                        /\ alive_cells' = alive_cells
                        /\ Cardinality(alive_cells') = Cardinality(alive_cells)
                 /\ (mouse_buttons' = {"Right"} /\ B \cap alive_cells = {}) =>
                        /\ alive_cells' = alive_cells
                        /\ Cardinality(alive_cells') = Cardinality(alive_cells)]_vars
    /\ [](\A buttons \in {{"Left"}, {"Right"}}, cursor \in Cursors \ {NoCursor} :
             LET once == AfterMouse(alive_cells, buttons, CursorCell(cursor), draw_mode)
             IN  AfterMouse(once, buttons, CursorCell(cursor), draw_mode) = once)

\* A 3x3 paint has fallen on cells that an earlier 5x5 paint had made alive.
C16_Witness ==
    /\ "handle_mouse_input" \in ran
    /\ "handle_keyboard_input" \notin ran
    /\ mouse_buttons = {"Left"}
    /\ mouse_cursor # NoCursor
    /\ draw_mode = "Block3x3"
    /\ generation = 0
    /\ Cardinality(alive_cells) = 25

\* C17: in every generation advance the neighbour-count table has an entry for
\* exactly the coordinates with an alive cell next to them, and the entry is the
\* number of alive cells around the coordinate, itself not counted: a value from
\* 1 to 8, which the 8-bit counter holds without overflow.
C17_NeighborCountsExact ==
    [][generation' = generation + 1 =>
          LET neighbor_counts == CountNeighbors(alive_cells)
          IN  /\ DOMAIN neighbor_counts \subseteq Surroundings(alive_cells)
              /\ \A c \in Surroundings(alive_cells) :
                    /\ c \in DOMAIN neighbor_counts <=> AliveAround(c, alive_cells) >= 1
                    /\ c \in DOMAIN neighbor_counts =>
                          /\ neighbor_counts[c] = AliveAround(c, alive_cells)
                          /\ neighbor_counts[c] \in 1..8]_vars

\* A painted 5x5 block, whose inner cells have 8 alive neighbours each, has been
\* advanced once.
C17_Witness ==
    /\ FiredThisFrame
    /\ generation = 1
    /\ alive_cells = ConwayNext(Square(<<-1, -1>>, 2))

\* C18: every cell alive after a generation advance is within distance 1, on both
\* axes, of a cell alive before it, so the bounding box of the population grows by
\* at most one cell per side, and the advance of an empty store is empty.
C18_NoLifeAwayFromLife ==
    [][generation' = generation + 1 =>
          /\ \A c \in alive_cells' : \E m \in alive_cells : CellWithin(m, c, 1)
          /\ alive_cells = {} => alive_cells' = {}
          /\ alive_cells' # {} =>
                /\ Min(Xs(alive_cells')) >= Min(Xs(alive_cells)) - 1
                /\ Max(Xs(alive_cells')) <= Max(Xs(alive_cells)) + 1
                /\ Min(Ys(alive_cells')) >= Min(Ys(alive_cells)) - 1
                /\ Max(Ys(alive_cells')) <= Max(Ys(alive_cells)) + 1]_vars

\* A painted 3x3 block around (-1,-1) has been advanced once and has grown by one
\* cell on every side.
C18_Witness ==
    /\ FiredThisFrame
    /\ generation = 1
    /\ Min(Xs(alive_cells) \cup {0}) = -3
    /\ Max(Xs(alive_cells) \cup {0}) = 1
    /\ Min(Ys(alive_cells) \cup {0}) = -3
    /\ Max(Ys(alive_cells) \cup {0}) = 1
    /\ Cardinality(alive_cells) = 8

\* C19: with the left and the right button both pressed the input step paints and
\* does not erase: afterwards every cell of the brush is alive and every cell that
\* was alive still is.
C19_BothButtonsPaintOnly ==
    [][(Runs("handle_mouse_input") /\ mouse_buttons' = {"Left", "Right"}
            /\ mouse_cursor' # NoCursor) =>
          LET B == Square(AnchorOf(mouse_cursor'), Reach(draw_mode))
          IN  /\ B \subseteq alive_cells'
              /\ alive_cells \subseteq alive_cells'
              /\ alive_cells' = alive_cells \cup B]_vars

\* Both buttons were pressed over the cursor cell in Block3x3 mode, and its nine
\* cells are alive.
C19_Witness ==
    /\ "handle_mouse_input" \in ran
    /\ "handle_keyboard_input" \notin ran
    /\ mouse_buttons = {"Left", "Right"}
    /\ mouse_cursor # NoCursor
    /\ draw_mode = "Block3x3"
    /\ generation = 0
    /\ alive_cells = Square(AnchorOf(mouse_cursor), 1)

====
